---------------------------- MODULE Spec2Model ----------------------------
(***************************************************************************)
(* Model of the job-description pipeline: the collection driver            *)
(* (scraper.py), the cleaner (cleaner.py: clean_text, clean_dataset,       *)
(* remove_duplicates) and the rule-based annotator (annotator.py), with    *)
(* the text predictors computed character by character through a model of *)
(* re.search, and the annotator's driver.                                  *)
(*                                                                         *)
(* A text is a sequence of one-character strings.  A regular expression is *)
(* a sequence of branches (the operands of '|'); a branch is a sequence of *)
(* tokens written as in the source: "\\b", "\\.", "\\+", "\\.?", "\\'?",   *)
(* ".?" and the plain characters.                                          *)
(***************************************************************************)
EXTENDS Integers, Sequences, FiniteSets, TLC

VARIABLES
    \* a call of one predictor
    title, description, skills, location,  \* its arguments
    category_scores,        \* the scores predict_job_category computed
    result,                 \* the value the predictor returned
    \* a run of the annotator's main()
    file,                   \* data/cleaned_job_descriptions.json when main starts
    cleaned_data,           \* main: cleaned_data
    next_item,              \* annotate_dataset: position of the for loop
    annotated,              \* annotate_dataset: the local list annotated_data
    annotated_data,         \* main: annotated_data, unbound until the call returns
    json_file,              \* data/annotated_job_descriptions.json
    csv_file,               \* data/annotated_job_descriptions.csv
    statistics,             \* main: the three count dicts
    stdout,                 \* the fixed-text lines printed so far
    exception,              \* the exception main ended with
    \* a run of the scraper's main()
    responses,              \* what the three public APIs answer
    api_jobs,               \* main: api_jobs
    job_descriptions,       \* main: job_descriptions
    raw_file,               \* data/raw_job_descriptions.json
    \* a call of the cleaner's clean_dataset or remove_duplicates
    raw_data,               \* clean_dataset: raw_data
    raw_index,              \* clean_dataset: position of the for loop
    clean_dataset_cleaned_data,  \* clean_dataset: the local cleaned_data
    remove_duplicates_data, \* remove_duplicates: the argument data
    unique_data,            \* remove_duplicates: the list it returned
    \* position: "call"/"return" of a predictor call, or the step of main
    pc

call_vars == <<title, description, skills, location, category_scores, result>>

main_vars == <<file, cleaned_data, next_item, annotated, annotated_data,
               json_file, csv_file, statistics, stdout, exception>>

scraper_vars == <<responses, api_jobs, job_descriptions, raw_file>>

cleaner_vars == <<raw_data, raw_index, clean_dataset_cleaned_data,
                  remove_duplicates_data, unique_data>>

stage_vars == <<scraper_vars, cleaner_vars>>

vars == <<call_vars, main_vars, stage_vars, pc>>

---------------------------------------------------------------------------
(* Bounds of the explored inputs. *)

MaxWords == 2

MaxSkills == 2

MaxRecords == 3

---------------------------------------------------------------------------
(* Characters, str.lower() and the regex engine. *)

UpperCase ==
    [A |-> "a", B |-> "b", C |-> "c", D |-> "d", E |-> "e", F |-> "f",
     G |-> "g", H |-> "h", I |-> "i", J |-> "j", K |-> "k", L |-> "l",
     M |-> "m", N |-> "n", O |-> "o", P |-> "p", Q |-> "q", R |-> "r",
     S |-> "s", T |-> "t", U |-> "u", V |-> "v", W |-> "w", X |-> "x",
     Y |-> "y", Z |-> "z"]

Digits == {"0", "1", "2", "3", "4", "5", "6", "7", "8", "9"}

\* \w of the re module: letters, digits and the underscore.
WordChars ==
    DOMAIN UpperCase \cup {UpperCase[c] : c \in DOMAIN UpperCase}
        \cup Digits \cup {"_"}

lower(text) ==
    [i \in 1..Len(text) |->
        IF text[i] \in DOMAIN UpperCase THEN UpperCase[text[i]] ELSE text[i]]

\* a + ' ' + b
concat_space(a, b) == a \o <<" ">> \o b

\* \b holds at position i (between text[i-1] and text[i]) when exactly one
\* side is a word character; outside the text counts as a non-word.
is_word_at(text, i) ==
    i >= 1 /\ i <= Len(text) /\ text[i] \in WordChars

at_word_boundary(text, i) == is_word_at(text, i - 1) # is_word_at(text, i)

\* The character an escaped or optional token stands for.
token_char(tok) ==
    CASE tok \in {"\\.", "\\.?"} -> "."
      [] tok = "\\+" -> "+"
      [] tok = "\\#" -> "#"
      [] tok = "\\ " -> " "
      [] tok = "\\'?" -> "'"
      [] OTHER -> tok

\* Does branch[k..] match text starting at position i?
RECURSIVE match_from(_, _, _, _)
match_from(branch, k, text, i) ==
    IF k > Len(branch) THEN TRUE
    ELSE LET tok == branch[k] IN
         CASE tok = "\\b" ->
                at_word_boundary(text, i) /\ match_from(branch, k + 1, text, i)
           [] tok = ".?" ->
                \/ /\ i <= Len(text)
                   /\ text[i] # "\n"
                   /\ match_from(branch, k + 1, text, i + 1)
                \/ match_from(branch, k + 1, text, i)
           [] tok \in {"\\.?", "\\'?"} ->
                \/ /\ i <= Len(text)
                   /\ text[i] = token_char(tok)
                   /\ match_from(branch, k + 1, text, i + 1)
                \/ match_from(branch, k + 1, text, i)
           [] OTHER ->
                /\ i <= Len(text)
                /\ text[i] = token_char(tok)
                /\ match_from(branch, k + 1, text, i + 1)

\* re.search(regex, text) is not None
re_search(regex, text) ==
    \E b \in 1..Len(regex) :
        \E i \in 1..(Len(text) + 1) : match_from(regex[b], 1, text, i)

\* re.escape(keyword): every character of the keyword becomes a literal
\* token ('#' and ' ' are escaped, letters, digits and '/' are not).
re_escape(keyword) ==
    [i \in 1..Len(keyword) |->
        IF keyword[i] \in {"#", " ", ".", "+"}
        THEN "\\" \o keyword[i] ELSE keyword[i]]

---------------------------------------------------------------------------
(* predict_experience_level *)

senior_indicators ==
    << << <<"s","e","n","i","o","r">> >>,
       << <<"s","r","\\.">> >>,
       << <<"l","e","a","d">> >>,
       << <<"p","r","i","n","c","i","p","a","l">> >>,
       << <<"a","r","c","h","i","t","e","c","t">> >>,
       << <<"5","\\+"," ","y","e","a","r","s">> >>,
       << <<"8","\\+"," ","y","e","a","r","s">> >>,
       << <<"1","0","\\+"," ","y","e","a","r","s">> >>,
       << <<"e","x","p","e","r","i","e","n","c","e","d">> >>,
       << <<"m","e","n","t","o","r">> >>,
       << <<"g","u","i","d","e">> >>,
       << <<"s","t","r","a","t","e","g">> >>,
       << <<"e","x","p","e","r","t">> >> >>

entry_indicators ==
    << << <<"e","n","t","r","y">> >>,
       << <<"j","u","n","i","o","r">> >>,
       << <<"j","r","\\.">> >>,
       << <<"g","r","a","d","u","a","t","e">> >>,
       << <<"0","-","2"," ","y","e","a","r","s">> >>,
       << <<"1","\\+"," ","y","e","a","r","s">> >>,
       << <<"2","\\+"," ","y","e","a","r","s">> >>,
       << <<"f","r","e","s","h","e","r">> >>,
       << <<"b","e","g","i","n","n","e","r">> >> >>

\* any(re.search(pattern, text) for pattern in patterns): the loops of the
\* predictor return at the first pattern that matches.
any_match(patterns, text) ==
    \E p \in 1..Len(patterns) : re_search(patterns[p], text)

\* The predictor with the entry list consulted before the senior list.
predict_experience_level_entry_first(desc, ttl) ==
    LET text == lower(concat_space(ttl, desc)) IN
    IF any_match(entry_indicators, text) THEN "entry"
    ELSE IF any_match(senior_indicators, text) THEN "senior"
    ELSE "mid"

\* The predictor with a rule that answers 'lead' on the word lead.
predict_experience_level_with_lead(desc, ttl) ==
    LET text == lower(concat_space(ttl, desc)) IN
    IF re_search(<< <<"l","e","a","d">> >>, text) THEN "lead"
    ELSE IF any_match(senior_indicators, text) THEN "senior"
    ELSE IF any_match(entry_indicators, text) THEN "entry"
    ELSE "mid"

predict_experience_level(desc, ttl) ==
    LET text == lower(concat_space(ttl, desc)) IN
    IF any_match(senior_indicators, text) THEN "senior"
    ELSE IF any_match(entry_indicators, text) THEN "entry"
    ELSE "mid"

---------------------------------------------------------------------------
(* predict_job_category *)

\* Insertion order of the category_keywords dict.
category_order == <<"backend", "frontend", "devops", "data", "mobile", "qa">>

category_keywords ==
    [backend |-> << <<"b","a","c","k","e","n","d">>,
                    <<"s","e","r","v","e","r">>,
                    <<"a","p","i">>,
                    <<"m","i","c","r","o","s","e","r","v","i","c","e","s">>,
                    <<"j","a","v","a">>,
                    <<"p","y","t","h","o","n">>,
                    <<"c","#">>,
                    <<"g","o">>,
                    <<"r","u","b","y">> >>,
     frontend |-> << <<"f","r","o","n","t","e","n","d">>,
                     <<"r","e","a","c","t">>,
                     <<"a","n","g","u","l","a","r">>,
                     <<"v","u","e">>,
                     <<"j","a","v","a","s","c","r","i","p","t">>,
                     <<"c","s","s">>,
                     <<"h","t","m","l">>,
                     <<"u","i","/","u","x">> >>,
     devops |-> << <<"d","e","v","o","p","s">>,
                   <<"a","w","s">>,
                   <<"a","z","u","r","e">>,
                   <<"g","c","p">>,
                   <<"d","o","c","k","e","r">>,
                   <<"k","u","b","e","r","n","e","t","e","s">>,
                   <<"c","i","/","c","d">>,
                   <<"i","n","f","r","a","s","t","r","u","c","t","u","r","e">> >>,
     data |-> << <<"d","a","t","a">>,
                 <<"d","a","t","a","b","a","s","e">>,
                 <<"s","q","l">>,
                 <<"n","o","s","q","l">>,
                 <<"e","t","l">>,
                 <<"w","a","r","e","h","o","u","s","e">>,
                 <<"a","n","a","l","y","t","i","c","s">>,
                 <<"b","i","g"," ","d","a","t","a">> >>,
     mobile |-> << <<"m","o","b","i","l","e">>,
                   <<"i","o","s">>,
                   <<"a","n","d","r","o","i","d">>,
                   <<"s","w","i","f","t">>,
                   <<"k","o","t","l","i","n">>,
                   <<"r","e","a","c","t"," ","n","a","t","i","v","e">>,
                   <<"f","l","u","t","t","e","r">> >>,
     qa |-> << <<"q","a">>,
               <<"q","u","a","l","i","t","y">>,
               <<"t","e","s","t">>,
               <<"s","e","l","e","n","i","u","m">>,
               <<"a","u","t","o","m","a","t","i","o","n">>,
               <<"t","e","s","t","i","n","g">> >>]

\* The pattern without its two \b: the keyword anywhere in the text.
keyword_regex_unanchored(keyword) == << re_escape(keyword) >>

\* rf'\b{re.escape(keyword)}\b'
keyword_regex(keyword) == << <<"\\b">> \o re_escape(keyword) \o <<"\\b">> >>

\* The first loop: one point for each of the first n keywords that matches.
RECURSIVE count_keywords(_, _, _)
count_keywords(keywords, n, text) ==
    IF n = 0 THEN 0
    ELSE count_keywords(keywords, n - 1, text)
         + (IF re_search(keyword_regex(keywords[n]), text) THEN 1 ELSE 0)

\* skill in keywords
in_list(x, list) == \E k \in 1..Len(list) : list[k] = x

\* The inner loop with the weight of a description keyword.
credit_skill_unweighted(scores, skill) ==
    [c \in DOMAIN scores |->
        IF in_list(skill, category_keywords[c])
        THEN scores[c] + 1 ELSE scores[c]]

\* The inner loop over the categories: two points to every category whose
\* keyword list holds the skill.
credit_skill(scores, skill) ==
    [c \in DOMAIN scores |->
        IF in_list(skill, category_keywords[c])
        THEN scores[c] + 2 ELSE scores[c]]

\* The outer loop, over the first n entries of the skills list.
RECURSIVE add_skills(_, _, _)
add_skills(scores, skill_list, n) ==
    IF n = 0 THEN scores
    ELSE credit_skill(add_skills(scores, skill_list, n - 1), skill_list[n])

compute_category_scores(desc, skill_list) ==
    LET text == lower(desc)
        by_text == [c \in DOMAIN category_keywords |->
                       count_keywords(category_keywords[c],
                                      Len(category_keywords[c]), text)]
    IN add_skills(by_text, skill_list, Len(skill_list))

\* max(category_scores.values())
max_value(scores) ==
    CHOOSE m \in {scores[c] : c \in DOMAIN scores} :
        \A c \in DOMAIN scores : scores[c] <= m

\* max(category_scores, key=category_scores.get): the first key, in
\* insertion order, that holds the maximum.
first_max_key(scores) ==
    LET m == max_value(scores)
        k == CHOOSE i \in 1..Len(category_order) :
                 /\ scores[category_order[i]] = m
                 /\ \A j \in 1..(i - 1) : scores[category_order[j]] # m
    IN category_order[k]

\* The threshold test with a cut at 80% of the maximum.
is_high_score_eighty(score, max_score) == 10 * score >= 8 * max_score

\* score >= max_score * 0.7.  The scores are integers, and the double
\* nearest to max_score * 0.7 lies in the same unit interval as 7*max_score/10
\* (and equals it when that is an integer), so the comparison is the exact one.
is_high_score(score, max_score) == 10 * score >= 7 * max_score

\* The decision without the override: the best category of any positive
\* maximum.
decide_category_best_only(scores) ==
    IF max_value(scores) = 0 THEN "fullstack" ELSE first_max_key(scores)

decide_category(scores) ==
    LET max_score == max_value(scores) IN
    IF max_score = 0 THEN "fullstack"
    ELSE LET best_category == first_max_key(scores)
             high_score_categories ==
                 SelectSeq(category_order,
                           LAMBDA c : is_high_score(scores[c], max_score))
         IN IF Len(high_score_categories) > 1 THEN "fullstack"
            ELSE best_category

predict_job_category(desc, skill_list) ==
    decide_category(compute_category_scores(desc, skill_list))

---------------------------------------------------------------------------
(* predict_education *)

phd_regex ==
    << <<"\\b","p","h","\\.?","d","\\b">>,
       <<"\\b","d","o","c","t","o","r","a","t","e","\\b">> >>

masters_regex ==
    << <<"\\b","m","a","s","t","e","r","\\'?","s","\\b">>,
       <<"\\b","m","s","\\b">>,
       <<"\\b","m","\\.?","s","\\b">>,
       <<"\\b","m","a","\\b">> >>

bachelors_regex ==
    << <<"\\b","b","a","c","h","e","l","o","r","\\'?","s","\\b">>,
       <<"\\b","b","s","\\b">>,
       <<"\\b","b","\\.?","s","\\b">>,
       <<"\\b","b","a","\\b">>,
       <<"\\b","d","e","g","r","e","e","\\b">> >>

\* The cascade with the bachelor's test ahead of the master's test.
predict_education_bachelors_first(desc) ==
    LET text == lower(desc) IN
    IF re_search(phd_regex, text) THEN "phd"
    ELSE IF re_search(bachelors_regex, text) THEN "bachelors"
    ELSE IF re_search(masters_regex, text) THEN "masters"
    ELSE "none"

\* The cascade with the bachelor's label misspelt.
predict_education_misspelt(desc) ==
    LET text == lower(desc) IN
    IF re_search(phd_regex, text) THEN "phd"
    ELSE IF re_search(masters_regex, text) THEN "masters"
    ELSE IF re_search(bachelors_regex, text) THEN "bachelor"
    ELSE "none"

predict_education(desc) ==
    LET text == lower(desc) IN
    IF re_search(phd_regex, text) THEN "phd"
    ELSE IF re_search(masters_regex, text) THEN "masters"
    ELSE IF re_search(bachelors_regex, text) THEN "bachelors"
    ELSE "none"

---------------------------------------------------------------------------
(* predict_remote *)

remote_regex ==
    << <<"\\b","r","e","m","o","t","e","\\b">>,
       <<"\\b","w","o","r","k"," ","f","r","o","m"," ","h","o","m","e","\\b">>,
       <<"\\b","w","f","h","\\b">> >>

hybrid_regex ==
    << <<"\\b","h","y","b","r","i","d","\\b">>,
       <<"\\b","f","l","e","x","i","b","l","e","\\b">>,
       <<"\\b","p","a","r","t","i","a","l","\\b">> >>

onsite_regex ==
    << <<"\\b","o","n",".?","s","i","t","e","\\b">>,
       <<"\\b","o","f","f","i","c","e","\\b">>,
       <<"\\b","i","n",".?","p","e","r","s","o","n","\\b">> >>

\* The cascade with the hybrid test ahead of the remote test.
predict_remote_hybrid_first(desc, loc) ==
    LET text == lower(concat_space(desc, loc)) IN
    IF re_search(hybrid_regex, text) THEN "hybrid"
    ELSE IF re_search(remote_regex, text) THEN "yes"
    ELSE IF re_search(onsite_regex, text) THEN "no"
    ELSE "unknown"

predict_remote(desc, loc) ==
    LET text == lower(concat_space(desc, loc)) IN
    IF re_search(remote_regex, text) THEN "yes"
    ELSE IF re_search(hybrid_regex, text) THEN "hybrid"
    ELSE IF re_search(onsite_regex, text) THEN "no"
    ELSE "unknown"

---------------------------------------------------------------------------
(* Input texts: up to MaxWords fragments joined by single spaces. *)

RECURSIVE Phrases(_, _)
Phrases(frags, n) ==
    IF n = 0 THEN {<<>>}
    ELSE LET shorter == Phrases(frags, n - 1) IN
         shorter \cup frags
             \cup {concat_space(p, f) : p \in shorter \ {<<>>}, f \in frags}

ExperienceTitles ==
    { <<>>,
      <<"S","e","n","i","o","r">>,
      <<"J","r",".">>,
      <<"d","e","v">>,
      <<"5","+">>,
      <<"t","e","a","m"," ","l","e","a","d","e","r">> }

ExperienceFragments ==
    { <<"2","+"," ","y","e","a","r","s">>,
      <<"y","e","a","r","s">>,
      <<"s","e","n","i","o","r">>,
      <<"s","r">>,
      <<"s","r",".">>,
      <<"E","n","t","r","y">>,
      <<"m","i","s","l","e","a","d","i","n","g">>,
      <<"e","n","g","i","n","e","e","r">>,
      <<"g","r","a","d","u","a","t","e">>,
      <<"1","0","+">> }

NoScores == [c \in DOMAIN category_keywords |-> 0]

Unbound == [bound |-> FALSE]

Unwritten == [written |-> FALSE]

\* No predictor is being called.
CallIdle ==
    /\ title = <<>>
    /\ description = <<>>
    /\ skills = <<>>
    /\ location = <<>>
    /\ category_scores = NoScores
    /\ result = "none yet"

\* The scraper has not run: no API has answered, nothing is collected.
ScraperIdle ==
    /\ responses = <<>>
    /\ api_jobs = <<>>
    /\ job_descriptions = <<>>
    /\ raw_file = Unwritten

\* The cleaner has not been called.
CleanerIdle ==
    /\ raw_data = <<>>
    /\ raw_index = 1
    /\ clean_dataset_cleaned_data = <<>>
    /\ remove_duplicates_data = <<>>
    /\ unique_data = Unbound

StagesIdle == ScraperIdle /\ CleanerIdle

\* main() has not started and its input file is absent.
MainIdle ==
    /\ file = [kind |-> "absent"]
    /\ cleaned_data = <<>>
    /\ next_item = 1
    /\ annotated = <<>>
    /\ annotated_data = Unbound
    /\ json_file = Unwritten
    /\ csv_file = Unwritten
    /\ statistics = Unbound
    /\ stdout = <<>>
    /\ exception = "none"

InitExperience ==
    /\ title \in ExperienceTitles
    /\ description \in Phrases(ExperienceFragments, MaxWords)
    /\ skills = <<>>
    /\ location = <<>>
    /\ category_scores = NoScores
    /\ result = "none yet"
    /\ MainIdle
    /\ StagesIdle
    /\ pc = "call"

CallPredictExperienceLevel ==
    /\ pc = "call"
    /\ result' = predict_experience_level(description, title)
    /\ pc' = "return"
    /\ UNCHANGED <<title, description, skills, location, category_scores, main_vars, stage_vars>>

NextExperience == CallPredictExperienceLevel

SpecExperience == InitExperience /\ [][NextExperience]_vars

---------------------------------------------------------------------------
(* predict_job_category applied to bounded descriptions and skills lists. *)

CategoryFragments ==
    { <<"j","a","v","a","s","c","r","i","p","t">>,
      <<"P","y","t","h","o","n"," ","a","p","i">>,
      <<"r","e","a","c","t"," ","k","u","b","e","r","n","e","t","e","s">>,
      <<"q","u","a","l","i","f","i","e","d"," ","a","p","i","s">>,
      <<"j","a","v","a"," ","c","#">> }

SkillTokens ==
    { <<"p","y","t","h","o","n">>,
      <<"r","e","a","c","t">>,
      <<"P","y","t","h","o","n">> }

\* The lists of at most n skill tokens (an entry may repeat).
RECURSIVE SkillLists(_)
SkillLists(n) ==
    IF n = 0 THEN {<<>>}
    ELSE LET shorter == SkillLists(n - 1) IN
         shorter \cup {Append(l, t) : l \in shorter, t \in SkillTokens}

InitCategory ==
    /\ title = <<>>
    /\ description \in Phrases(CategoryFragments, MaxWords)
    /\ skills \in SkillLists(MaxSkills)
    /\ location = <<>>
    /\ category_scores = NoScores
    /\ result = "none yet"
    /\ MainIdle
    /\ StagesIdle
    /\ pc = "call"

CallPredictJobCategory ==
    /\ pc = "call"
    /\ category_scores' = compute_category_scores(description, skills)
    /\ result' = decide_category(category_scores')
    /\ pc' = "return"
    /\ UNCHANGED <<title, description, skills, location, main_vars, stage_vars>>

NextCategory == CallPredictJobCategory

SpecCategory == InitCategory /\ [][NextCategory]_vars

---------------------------------------------------------------------------
(* predict_education applied to bounded descriptions. *)

EducationFragments ==
    { <<"P","h","D">>,
      <<"p","h",".","d",".">>,
      <<"d","o","c","t","o","r","a","t","e","s">>,
      <<"m","a","s","t","e","r","'","s"," ","d","e","g","r","e","e">>,
      <<"m","a","s","t","e","r","s">>,
      <<"M",".","S">>,
      <<"m","b","a">>,
      <<"m","a">>,
      <<"b","a","c","h","e","l","o","r","'","s"," ","d","e","g","r","e","e">>,
      <<"b",".","s">>,
      <<"d","e","g","r","e","e">>,
      <<"t","e","a","m">> }

InitEducation ==
    /\ title = <<>>
    /\ description \in Phrases(EducationFragments, MaxWords)
    /\ skills = <<>>
    /\ location = <<>>
    /\ category_scores = NoScores
    /\ result = "none yet"
    /\ MainIdle
    /\ StagesIdle
    /\ pc = "call"

CallPredictEducation ==
    /\ pc = "call"
    /\ result' = predict_education(description)
    /\ pc' = "return"
    /\ UNCHANGED <<title, description, skills, location, category_scores, main_vars, stage_vars>>

NextEducation == CallPredictEducation

SpecEducation == InitEducation /\ [][NextEducation]_vars

---------------------------------------------------------------------------
(* predict_remote applied to bounded descriptions and locations. *)

RemoteFragments ==
    { <<"r","e","m","o","t","e">>,
      <<"r","e","m","o","t","e","l","y">>,
      <<"w","o","r","k"," ","f","r","o","m">>,
      <<"W","F","H">>,
      <<"H","y","b","r","i","d">>,
      <<"f","l","e","x","i","b","l","e">>,
      <<"o","n","-","s","i","t","e">>,
      <<"o","n"," ","t","h","e"," ","s","i","t","e">>,
      <<"i","n"," ","p","e","r","s","o","n">>,
      <<"o","f","f","i","c","e","r">> }

RemoteLocations ==
    { <<>>,
      <<"R","e","m","o","t","e">>,
      <<"h","o","m","e">>,
      <<"A","u","s","t","i","n",","," ","T","X">>,
      <<"h","e","a","d"," ","o","f","f","i","c","e">> }

InitRemote ==
    /\ title = <<>>
    /\ description \in Phrases(RemoteFragments, MaxWords)
    /\ skills = <<>>
    /\ location \in RemoteLocations
    /\ category_scores = NoScores
    /\ result = "none yet"
    /\ MainIdle
    /\ StagesIdle
    /\ pc = "call"

CallPredictRemote ==
    /\ pc = "call"
    /\ result' = predict_remote(description, location)
    /\ pc' = "return"
    /\ UNCHANGED <<title, description, skills, location, category_scores, main_vars, stage_vars>>

NextRemote == CallPredictRemote

SpecRemote == InitRemote /\ [][NextRemote]_vars

---------------------------------------------------------------------------
(* annotate_dataset, save_annotated_data and main.  A record is a function *)
(* from field names to values.                                             *)

RequiredFields == <<"description", "title", "skills", "location">>

AnnotationFields ==
    {"experience_level", "job_category", "education_required",
     "remote_possible", "annotation_method"}

\* The first of item['description'], item['title'], item['skills'],
\* item['location'] that raises KeyError, or "none".
missing_field(item) ==
    IF \A k \in 1..Len(RequiredFields) : RequiredFields[k] \in DOMAIN item
    THEN "none"
    ELSE RequiredFields[CHOOSE k \in 1..Len(RequiredFields) :
             /\ RequiredFields[k] \notin DOMAIN item
             /\ \A j \in 1..(k - 1) : RequiredFields[j] \in DOMAIN item]

annotations(item) ==
    [experience_level |->
         predict_experience_level(item["description"], item["title"]),
     job_category |-> predict_job_category(item["description"], item["skills"]),
     education_required |-> predict_education(item["description"]),
     remote_possible |-> predict_remote(item["description"], item["location"]),
     annotation_method |-> "rule_based"]

\* {**annotations, **item}: the fields of the input win.
annotate_item_input_wins(item) == item @@ annotations(item)

\* {**item, **annotations}: the annotations win.
annotate_item(item) == annotations(item) @@ item

\* ', '.join(list)
RECURSIVE join(_, _)
join(sep, list) ==
    IF list = <<>> THEN <<>>
    ELSE IF Len(list) = 1 THEN list[1]
    ELSE list[1] \o sep \o join(sep, Tail(list))

\* list[:n]
prefix(list, n) == SubSeq(list, 1, IF Len(list) < n THEN Len(list) ELSE n)

CsvFields ==
    {"title", "company", "experience_level", "job_category",
     "education_required", "remote_possible", "skills", "source"}

csv_item(item) ==
    [title |-> item["title"],
     company |-> item["company"],
     experience_level |-> item["experience_level"],
     job_category |-> item["job_category"],
     education_required |-> item["education_required"],
     remote_possible |-> item["remote_possible"],
     skills |-> join(<<",", " ">>, prefix(item["skills"], 5)),
     source |-> item["source"]]

\* counts.get(v, 0) + 1 over the items: how many items hold each value
counts(data, field) ==
    [v \in {data[i][field] : i \in 1..Len(data)} |->
        Cardinality({i \in 1..Len(data) : data[i][field] = v})]

---------------------------------------------------------------------------
(* The run of main(). *)

Senior_Record ==
    [title |-> <<"s","e","n","i","o","r"," ","d","e","v">>,
     description |->
         <<"p","y","t","h","o","n"," ","a","p","i"," ",
           "m","a","s","t","e","r","s"," ","w","f","h">>,
     skills |-> << <<"p","y","t","h","o","n">> >>,
     location |-> <<"r","e","m","o","t","e">>,
     company |-> <<"a","c","m","e">>,
     source |-> "Realistic Sample",
     word_count |-> 4]

Junior_Record ==
    [title |-> <<"j","u","n","i","o","r"," ","d","e","v">>,
     description |-> <<"r","e","a","c","t"," ","c","s","s">>,
     skills |-> << <<"c","s","s">>, <<"r","e","a","c","t">> >>,
     location |-> <<"a","u","s","t","i","n">>,
     company |-> <<"a","c","m","e">>,
     source |-> "RemoteOK API"]

\* The four required fields and nothing else.
Bare_Record ==
    [title |-> <<"d","e","v">>,
     description |->
         <<"d","o","c","k","e","r"," ","h","y","b","r","i","d"," ",
           "d","e","g","r","e","e">>,
     skills |-> <<>>,
     location |-> <<"o","f","f","i","c","e">>]

\* A record that already carries two of the annotation fields.
Labelled_Record ==
    [title |-> <<"d","e","v">>,
     description |-> <<"p","h","d"," ","o","n","-","s","i","t","e">>,
     skills |-> <<>>,
     location |-> <<>>,
     company |-> <<"a","c","m","e">>,
     source |-> "manual",
     experience_level |-> "lead",
     annotation_method |-> "manual"]

No_Skills_Record ==
    [title |-> <<"d","e","v">>,
     description |-> <<"r","e","a","c","t"," ","c","s","s">>,
     location |-> <<"a","u","s","t","i","n">>,
     company |-> <<"a","c","m","e">>,
     source |-> "RemoteOK API"]

No_Location_Record ==
    [title |-> <<"s","e","n","i","o","r"," ","d","e","v">>,
     description |-> <<"r","e","a","c","t"," ","c","s","s">>,
     skills |-> <<>>,
     company |-> <<"a","c","m","e">>,
     source |-> "RemoteOK API"]

RecordPool ==
    {Senior_Record, Junior_Record, Bare_Record, Labelled_Record,
     No_Skills_Record, No_Location_Record}

\* The lists of at most n records of the pool.
RECURSIVE RecordLists(_)
RecordLists(n) ==
    IF n = 0 THEN {<<>>}
    ELSE LET shorter == RecordLists(n - 1) IN
         shorter \cup {Append(l, r) : l \in shorter, r \in RecordPool}

\* The input file is absent, or holds text that is not JSON, or holds a
\* JSON list of records.
Files ==
    {[kind |-> "absent"], [kind |-> "invalid"]}
        \cup {[kind |-> "list", data |-> l] : l \in RecordLists(MaxRecords)}

Init ==
    /\ title = <<>>
    /\ description = <<>>
    /\ skills = <<>>
    /\ location = <<>>
    /\ category_scores = NoScores
    /\ result = "none yet"
    /\ file \in Files
    /\ cleaned_data = <<>>
    /\ next_item = 1
    /\ annotated = <<>>
    /\ annotated_data = Unbound
    /\ json_file = Unwritten
    /\ csv_file = Unwritten
    /\ statistics = Unbound
    /\ stdout = <<>>
    /\ exception = "none"
    /\ StagesIdle
    /\ pc = "start"

\* main: print, then load_cleaned_data: json.load of the opened file; only
\* FileNotFoundError is caught.
LoadCleanedData ==
    /\ pc = "start"
    /\ CASE file.kind = "absent" ->
              /\ stdout' = stdout \o
                     <<"Loading cleaned data...",
                       "Cleaned data file not found. Please run cleaner.py first.">>
              /\ cleaned_data' = <<>>
              /\ exception' = exception
              /\ pc' = "loaded"
         [] file.kind = "invalid" ->
              /\ stdout' = Append(stdout, "Loading cleaned data...")
              /\ cleaned_data' = cleaned_data
              /\ exception' = "JSONDecodeError"
              /\ pc' = "raised"
         [] file.kind = "list" ->
              /\ stdout' = Append(stdout, "Loading cleaned data...")
              /\ cleaned_data' = file.data
              /\ exception' = exception
              /\ pc' = "loaded"
    /\ UNCHANGED <<call_vars, stage_vars, file, next_item, annotated, annotated_data,
                   json_file, csv_file, statistics>>

\* main: if not cleaned_data: print and return; else enter annotate_dataset.
CheckCleanedData ==
    /\ pc = "loaded"
    /\ IF cleaned_data = <<>>
       THEN /\ stdout' = Append(stdout, "No cleaned data found. Exiting.")
            /\ pc' = "exit"
       ELSE /\ stdout' = Append(stdout, "Annotating data...")
            /\ pc' = "annotating"
    /\ next_item' = 1
    /\ annotated' = <<>>
    /\ UNCHANGED <<call_vars, stage_vars, file, cleaned_data, annotated_data, json_file,
                   csv_file, statistics, exception>>

\* One pass of the for loop that drops a record lacking a field and goes on.
AnnotateItemSkippingMalformed ==
    /\ pc = "annotating"
    /\ next_item <= Len(cleaned_data)
    /\ LET item == cleaned_data[next_item] IN
       annotated' = IF missing_field(item) # "none" THEN annotated
                    ELSE Append(annotated, annotate_item(item))
    /\ next_item' = next_item + 1
    /\ UNCHANGED <<call_vars, stage_vars, file, cleaned_data, annotated_data, json_file,
                   csv_file, statistics, stdout, exception, pc>>

\* One pass of the for loop that puts the annotated item at the front.
AnnotateItemAtFront ==
    /\ pc = "annotating"
    /\ next_item <= Len(cleaned_data)
    /\ LET item == cleaned_data[next_item] IN
       IF missing_field(item) # "none"
       THEN /\ exception' = "KeyError"
            /\ pc' = "raised"
            /\ UNCHANGED <<annotated, next_item>>
       ELSE /\ annotated' = <<annotate_item(item)>> \o annotated
            /\ next_item' = next_item + 1
            /\ UNCHANGED <<exception, pc>>
    /\ UNCHANGED <<call_vars, stage_vars, file, cleaned_data, annotated_data, json_file,
                   csv_file, statistics, stdout>>

\* One pass of the for loop of annotate_dataset: a missing field raises
\* KeyError out of annotate_dataset and out of main.
AnnotateItem ==
    /\ pc = "annotating"
    /\ next_item <= Len(cleaned_data)
    /\ LET item == cleaned_data[next_item] IN
       IF missing_field(item) # "none"
       THEN /\ exception' = "KeyError"
            /\ pc' = "raised"
            /\ UNCHANGED <<annotated, next_item>>
       ELSE /\ annotated' = Append(annotated, annotate_item(item))
            /\ next_item' = next_item + 1
            /\ UNCHANGED <<exception, pc>>
    /\ UNCHANGED <<call_vars, stage_vars, file, cleaned_data, annotated_data, json_file,
                   csv_file, statistics, stdout>>

\* annotate_dataset returns its list; main binds it and prints.
ReturnAnnotated ==
    /\ pc = "annotating"
    /\ next_item > Len(cleaned_data)
    /\ annotated_data' = [bound |-> TRUE, value |-> annotated]
    /\ stdout' = Append(stdout, "Saving annotated data...")
    /\ pc' = "saving"
    /\ UNCHANGED <<call_vars, stage_vars, file, cleaned_data, next_item, annotated,
                   json_file, csv_file, statistics, exception>>

\* save_annotated_data: the JSON dump, then the CSV rows, which read
\* 'company' and 'source' of every item.
SaveAnnotatedData ==
    /\ pc = "saving"
    /\ json_file' = [written |-> TRUE, data |-> annotated_data.value]
    /\ IF \A i \in 1..Len(annotated_data.value) :
              CsvFields \subseteq DOMAIN annotated_data.value[i]
       THEN /\ csv_file' =
                   [written |-> TRUE,
                    rows |-> [i \in 1..Len(annotated_data.value) |->
                                 csv_item(annotated_data.value[i])]]
            /\ pc' = "saved"
            /\ exception' = exception
       ELSE /\ csv_file' = csv_file
            /\ pc' = "raised"
            /\ exception' = "KeyError"
    /\ UNCHANGED <<call_vars, stage_vars, file, cleaned_data, next_item, annotated,
                   annotated_data, statistics, stdout>>

\* main: the annotation statistics and the sample annotations.
ShowStatistics ==
    /\ pc = "saved"
    /\ statistics' =
           [bound |-> TRUE,
            experience_counts |-> counts(annotated_data.value, "experience_level"),
            category_counts |-> counts(annotated_data.value, "job_category"),
            education_counts |-> counts(annotated_data.value, "education_required")]
    /\ stdout' = stdout \o <<"\nAnnotation Statistics:", "\nSample Annotations:">>
    /\ pc' = "done"
    /\ UNCHANGED <<call_vars, stage_vars, file, cleaned_data, next_item, annotated,
                   annotated_data, json_file, csv_file, exception>>

Next ==
    \/ LoadCleanedData
    \/ CheckCleanedData
    \/ AnnotateItem
    \/ ReturnAnnotated
    \/ SaveAnnotatedData
    \/ ShowStatistics

Spec == Init /\ [][Next]_vars

---------------------------------------------------------------------------
(* Vocabulary of the properties: occurrences of plain phrases in a text,   *)
(* stated without the regex engine.                                        *)

\* phrase occurs in text at position i
occurs_at(text, phrase, i) ==
    /\ i >= 1
    /\ i + Len(phrase) - 1 <= Len(text)
    /\ SubSeq(text, i, i + Len(phrase) - 1) = phrase

contains(text, phrase) == \E i \in 1..(Len(text) + 1) : occurs_at(text, phrase, i)

no_word_char_at(text, i) ==
    i < 1 \/ i > Len(text) \/ text[i] \notin WordChars

\* phrase (which starts and ends with a word character) occurs in text with
\* no word character right before it and none right after it
contains_word(text, phrase) ==
    \E i \in 1..(Len(text) + 1) :
        /\ occurs_at(text, phrase, i)
        /\ no_word_char_at(text, i - 1)
        /\ no_word_char_at(text, i + Len(phrase))

\* head and tail occur as one word, adjacent or with one character (not a
\* newline) between them
contains_word_pair(text, head, tail) ==
    \E i \in 1..(Len(text) + 1) : \E gap \in {0, 1} :
        /\ occurs_at(text, head, i)
        /\ occurs_at(text, tail, i + Len(head) + gap)
        /\ gap = 1 => text[i + Len(head)] # "\n"
        /\ no_word_char_at(text, i - 1)
        /\ no_word_char_at(text, i + Len(head) + gap + Len(tail))

Categories == {"backend", "frontend", "devops", "data", "mobile", "qa"}

keyword_set(c) == {category_keywords[c][k] : k \in 1..Len(category_keywords[c])}

---------------------------------------------------------------------------
(* C1 *)

scores_maximum == CHOOSE m \in {category_scores[c] : c \in Categories} :
                      \A c \in Categories : category_scores[c] <= m

scores_near_maximum ==
    {c \in Categories : 10 * category_scores[c] >= 7 * scores_maximum}

\* C1: once predict_job_category has returned, its result follows the
\* decision rule on the six scores: 'fullstack' when the maximum is 0;
\* 'fullstack' when more than one category scores at least 0.7 times the
\* maximum; otherwise the one category that holds the maximum.
C1_DecisionRule ==
    pc = "return" =>
        IF scores_maximum = 0 THEN result = "fullstack"
        ELSE IF Cardinality(scores_near_maximum) > 1 THEN result = "fullstack"
        ELSE /\ result \in Categories
             /\ category_scores[result] = scores_maximum
             /\ \A c \in Categories \ {result} :
                    category_scores[c] < scores_maximum

\* A call returned 'fullstack' because a second category, below the positive
\* maximum, reached 70% of it.
C1_Witness ==
    /\ pc = "return"
    /\ result = "fullstack"
    /\ scores_maximum > 0
    /\ \E c \in scores_near_maximum :
           /\ category_scores[c] < scores_maximum
           /\ category_scores[c] > 0

---------------------------------------------------------------------------
(* C2 *)

\* one side of position i holds a word character and the other does not
word_edge_at(text, i) == no_word_char_at(text, i - 1) # no_word_char_at(text, i)

\* the keyword occurs in the text between two word edges
keyword_occurs(text, kw) ==
    \E i \in 1..(Len(text) + 1) :
        /\ occurs_at(text, kw, i)
        /\ word_edge_at(text, i)
        /\ word_edge_at(text, i + Len(kw))

\* the number of the category's keywords that occur in the description
keyword_matches(c, desc) ==
    Cardinality({kw \in keyword_set(c) : keyword_occurs(lower(desc), kw)})

Python == <<"p","y","t","h","o","n">>

Django == <<"d","j","a","n","g","o">>

\* the number of entries of the list (not of distinct tokens) that are
\* literally one of the category's keywords
skill_members(c, skill_list) ==
    Cardinality({i \in 1..Len(skill_list) : skill_list[i] \in keyword_set(c)})

\* C2: the score of every category is the number of its keywords matching
\* the description plus twice the number of skills entries that are literal
\* members of its keyword list; one more 'python' entry adds 2 to backend and
\* nothing elsewhere; one more entry that is in no keyword list adds nothing.
C2_ScoreFormula ==
    pc = "return" =>
        /\ \A c \in Categories :
               category_scores[c] =
                   keyword_matches(c, description) + 2 * skill_members(c, skills)
        /\ compute_category_scores(description, Append(skills, Python))
               = [category_scores EXCEPT !["backend"] = @ + 2]
        /\ compute_category_scores(description, Append(skills, Django))
               = category_scores

\* A call whose skills list holds 'python' next to a token of no keyword
\* list ('Python'), on a description that itself matches a backend keyword.
C2_Witness ==
    /\ pc = "return"
    /\ in_list(Python, skills)
    /\ in_list(<<"P","y","t","h","o","n">>, skills)
    /\ category_scores["backend"] >= 3
    /\ keyword_matches("backend", description) >= 1

---------------------------------------------------------------------------
(* C3 *)

SeniorPhrases ==
    { <<"s","e","n","i","o","r">>,
      <<"s","r",".">>,
      <<"l","e","a","d">>,
      <<"p","r","i","n","c","i","p","a","l">>,
      <<"a","r","c","h","i","t","e","c","t">>,
      <<"5","+"," ","y","e","a","r","s">>,
      <<"8","+"," ","y","e","a","r","s">>,
      <<"1","0","+"," ","y","e","a","r","s">>,
      <<"e","x","p","e","r","i","e","n","c","e","d">>,
      <<"m","e","n","t","o","r">>,
      <<"g","u","i","d","e">>,
      <<"s","t","r","a","t","e","g">>,
      <<"e","x","p","e","r","t">> }

EntryPhrases ==
    { <<"e","n","t","r","y">>,
      <<"j","u","n","i","o","r">>,
      <<"j","r",".">>,
      <<"g","r","a","d","u","a","t","e">>,
      <<"0","-","2"," ","y","e","a","r","s">>,
      <<"1","+"," ","y","e","a","r","s">>,
      <<"2","+"," ","y","e","a","r","s">>,
      <<"f","r","e","s","h","e","r">>,
      <<"b","e","g","i","n","n","e","r">> }

\* the combined text of the call: title, a space, description, case-folded
combined_title_text == lower(title \o <<" ">> \o description)

senior_signal == \E ph \in SeniorPhrases : contains(combined_title_text, ph)

entry_signal == \E ph \in EntryPhrases : contains(combined_title_text, ph)

\* C3: predict_experience_level returns 'senior' whenever a senior pattern
\* occurs in the combined text, entry patterns or not; 'entry' exactly when
\* no senior pattern occurs and an entry pattern does; 'mid' exactly when
\* neither occurs, as for an empty title and description.
C3_SeniorPrecedence ==
    pc = "return" =>
        /\ senior_signal => result = "senior"
        /\ result = "entry" <=> (~senior_signal /\ entry_signal)
        /\ result = "mid" <=> (~senior_signal /\ ~entry_signal)
        /\ (title = <<>> /\ description = <<>>) => result = "mid"

\* A call on a text that holds a senior pattern and an entry pattern
\* ('2+ years') returned 'senior'.
C3_Witness ==
    /\ pc = "return"
    /\ senior_signal
    /\ contains(combined_title_text, <<"2","+"," ","y","e","a","r","s">>)
    /\ result = "senior"

---------------------------------------------------------------------------
(* C4 *)

PhdTerms ==
    { <<"p","h","d">>, <<"p","h",".","d">>,
      <<"d","o","c","t","o","r","a","t","e">> }

MastersTerms ==
    { <<"m","a","s","t","e","r","'","s">>, <<"m","a","s","t","e","r","s">>,
      <<"m","s">>, <<"m",".","s">>, <<"m","a">> }

BachelorsTerms ==
    { <<"b","a","c","h","e","l","o","r","'","s">>,
      <<"b","a","c","h","e","l","o","r","s">>,
      <<"b","s">>, <<"b",".","s">>, <<"b","a">>,
      <<"d","e","g","r","e","e">> }

has_term(text, terms) == \E t \in terms : contains_word(text, t)

\* C4: predict_education returns 'phd' if a PhD or doctorate term occurs in
\* the description; else 'masters' if a master's, MS or MA term occurs; else
\* 'bachelors' if a bachelor's, BS, BA or 'degree' term occurs; else 'none'.
C4_EducationCascade ==
    pc = "return" =>
        LET text == lower(description) IN
        result = IF has_term(text, PhdTerms) THEN "phd"
                 ELSE IF has_term(text, MastersTerms) THEN "masters"
                 ELSE IF has_term(text, BachelorsTerms) THEN "bachelors"
                 ELSE "none"

\* A call on a description with both "bachelor's degree" and "master's
\* degree" returned 'masters'.
C4_Witness ==
    /\ pc = "return"
    /\ contains(description,
                <<"b","a","c","h","e","l","o","r","'","s"," ","d","e","g","r","e","e">>)
    /\ contains(description,
                <<"m","a","s","t","e","r","'","s"," ","d","e","g","r","e","e">>)
    /\ result = "masters"

---------------------------------------------------------------------------
(* C5 *)

RemoteTerms ==
    { <<"r","e","m","o","t","e">>,
      <<"w","o","r","k"," ","f","r","o","m"," ","h","o","m","e">>,
      <<"w","f","h">> }

HybridTerms ==
    { <<"h","y","b","r","i","d">>,
      <<"f","l","e","x","i","b","l","e">>,
      <<"p","a","r","t","i","a","l">> }

\* on-site, onsite, on site, ...; office; in-person, in person, ...
onsite_term(text) ==
    \/ contains_word_pair(text, <<"o","n">>, <<"s","i","t","e">>)
    \/ contains_word(text, <<"o","f","f","i","c","e">>)
    \/ contains_word_pair(text, <<"i","n">>, <<"p","e","r","s","o","n">>)

\* C5: predict_remote, on the description joined to the location, returns
\* 'yes' if a remote, work-from-home or WFH term occurs, whatever else
\* occurs; else 'hybrid' if a hybrid, flexible or partial term occurs; else
\* 'no' if an on-site, office or in-person term occurs; else 'unknown'.
C5_RemoteCascade ==
    pc = "return" =>
        LET text == lower(description \o <<" ">> \o location) IN
        result = IF has_term(text, RemoteTerms) THEN "yes"
                 ELSE IF has_term(text, HybridTerms) THEN "hybrid"
                 ELSE IF onsite_term(text) THEN "no"
                 ELSE "unknown"

\* A call whose text holds a remote term next to a hybrid term and an
\* on-site term returned 'yes'.
C5_Witness ==
    /\ pc = "return"
    /\ LET text == lower(description \o <<" ">> \o location) IN
           /\ has_term(text, RemoteTerms)
           /\ has_term(text, HybridTerms)
           /\ onsite_term(text)
    /\ result = "yes"

---------------------------------------------------------------------------
(* C6 *)

ExperienceLevels == {"entry", "mid", "senior", "lead"}

JobCategories ==
    {"backend", "frontend", "fullstack", "devops", "data", "mobile", "qa"}

EducationLevels == {"none", "bachelors", "masters", "phd"}

RemoteValues == {"yes", "no", "hybrid", "unknown"}

carries_valid_annotations(r) ==
    /\ AnnotationFields \subseteq DOMAIN r
    /\ r["experience_level"] \in ExperienceLevels
    /\ r["job_category"] \in JobCategories
    /\ r["education_required"] \in EducationLevels
    /\ r["remote_possible"] \in RemoteValues
    /\ r["annotation_method"] = "rule_based"

\* C6: every record annotate_dataset returns carries the five annotation
\* fields, each predictor's field holding a value of its enumeration and
\* annotation_method holding 'rule_based'.
C6_AnnotationsInEnums ==
    annotated_data.bound =>
        \A i \in 1..Len(annotated_data.value) :
            carries_valid_annotations(annotated_data.value[i])

\* annotate_dataset returned records among which one has every predictor's
\* fallback value but experience ('unknown' included) and one came from an
\* input that carried experience_level = 'lead'.
C6_Witness ==
    /\ annotated_data.bound
    /\ \E i \in 1..Len(annotated_data.value) :
           /\ annotated_data.value[i]["remote_possible"] = "unknown"
           /\ annotated_data.value[i]["education_required"] = "none"
    /\ \E i \in 1..Len(annotated_data.value) :
           /\ annotated_data.value[i]["education_required"] = "bachelors"
    /\ \E i \in 1..Len(cleaned_data) :
           /\ "experience_level" \in DOMAIN cleaned_data[i]
           /\ cleaned_data[i]["experience_level"] = "lead"

---------------------------------------------------------------------------
(* C7 *)

annotation_part(r) == [f \in AnnotationFields |-> r[f]]

\* C7: annotate_dataset returns as many records as it was given, and the
\* annotation fields of the i-th returned record are those of the i-th input
\* record taken alone: the same at every position and in every batch the
\* record occurs in.
C7_OrderPreservingMap ==
    annotated_data.bound =>
        /\ Len(annotated_data.value) = Len(cleaned_data)
        /\ \A i \in 1..Len(cleaned_data) :
               annotation_part(annotated_data.value[i])
                   = annotations(cleaned_data[i])
        /\ \A i, j \in 1..Len(cleaned_data) :
               cleaned_data[i] = cleaned_data[j] =>
                   annotated_data.value[i] = annotated_data.value[j]

\* annotate_dataset returned the annotations of a batch that holds the same
\* record twice around a record with other annotations.
C7_Witness ==
    /\ annotated_data.bound
    /\ Len(cleaned_data) = 3
    /\ cleaned_data[1] = cleaned_data[3]
    /\ annotations(cleaned_data[1]) # annotations(cleaned_data[2])
    /\ Len(annotated_data.value) = 3

---------------------------------------------------------------------------
(* C8 *)

\* C8 as stated: every field of every input record, whatever its name, is in
\* the corresponding returned record with the value it had in the input.
C8_EveryFieldUnchanged ==
    annotated_data.bound =>
        \A i \in 1..Len(cleaned_data) :
            \A f \in DOMAIN cleaned_data[i] :
                /\ i <= Len(annotated_data.value)
                /\ f \in DOMAIN annotated_data.value[i]
                /\ annotated_data.value[i][f] = cleaned_data[i][f]

\* C8 amended: every field of every input record whose name is not one of
\* the five annotation field names is in the corresponding returned record
\* with the value it had in the input; a field of the input that has one of
\* those five names is replaced by the annotation.
C8_OtherFieldsUnchanged ==
    annotated_data.bound =>
        /\ Len(annotated_data.value) = Len(cleaned_data)
        /\ \A i \in 1..Len(cleaned_data) :
               /\ \A f \in DOMAIN cleaned_data[i] \ AnnotationFields :
                      /\ f \in DOMAIN annotated_data.value[i]
                      /\ annotated_data.value[i][f] = cleaned_data[i][f]
               /\ \A f \in DOMAIN cleaned_data[i] \cap AnnotationFields :
                      annotated_data.value[i][f] = annotations(cleaned_data[i])[f]

\* annotate_dataset returned the record of an input that had fields beyond
\* the four required ones and an experience_level of its own, which the
\* returned record does not have any more.
C8_Witness ==
    /\ annotated_data.bound
    /\ \E i \in 1..Len(cleaned_data) :
           /\ {"company", "source", "experience_level"} \subseteq DOMAIN cleaned_data[i]
           /\ annotated_data.value[i]["company"] = cleaned_data[i]["company"]
           /\ annotated_data.value[i]["experience_level"]
                  # cleaned_data[i]["experience_level"]

---------------------------------------------------------------------------
(* C9 *)

\* C9: when the cleaned-data file is absent or is not well-formed JSON, the
\* run does not raise, loading yields zero records, annotate_dataset is never
\* entered, no output file is written, and the run ends on the 'no data'
\* line.
C9_NoDataIsNotAnError ==
    file.kind \in {"absent", "invalid"} =>
        /\ exception = "none"
        /\ pc \in {"start", "loaded", "exit"}
        /\ cleaned_data = <<>>
        /\ annotated = <<>> /\ ~annotated_data.bound
        /\ ~json_file.written /\ ~csv_file.written
        /\ pc = "exit" =>
               stdout[Len(stdout)] = "No cleaned data found. Exiting."

---------------------------------------------------------------------------
(* C10 *)

has_malformed_record(data) ==
    \E i \in 1..Len(data) : ~({"description", "title", "skills", "location"}
                                 \subseteq DOMAIN data[i])

first_malformed(data) ==
    CHOOSE i \in 1..Len(data) :
        /\ ~({"description", "title", "skills", "location"} \subseteq DOMAIN data[i])
        /\ \A j \in 1..(i - 1) :
               {"description", "title", "skills", "location"} \subseteq DOMAIN data[j]

\* C10: when a record of the loaded sequence lacks description, title,
\* skills or location, annotate_dataset never returns (main's annotated_data
\* stays unbound, whatever records precede the offending one) and no output
\* file is written; the loop does not get past that record: the pass that
\* reaches it ends the run with KeyError.
C10_MalformedRecordFailsPass ==
    /\ [](has_malformed_record(cleaned_data) =>
            /\ ~annotated_data.bound
            /\ ~json_file.written /\ ~csv_file.written
            /\ pc \in {"loaded", "annotating", "raised"}
            /\ next_item <= first_malformed(cleaned_data)
            /\ pc = "raised" => exception = "KeyError")
    /\ [][(/\ pc = "annotating"
           /\ has_malformed_record(cleaned_data)
           /\ next_item = first_malformed(cleaned_data))
             => (pc' = "raised" /\ exception' = "KeyError"
                   /\ ~annotated_data'.bound)]_vars

\* The run ended with KeyError on a record that follows well-formed ones,
\* whose annotations had been built and are not returned.
C10_Witness ==
    /\ pc = "raised"
    /\ exception = "KeyError"
    /\ has_malformed_record(cleaned_data)
    /\ Len(annotated) >= 2
    /\ ~annotated_data.bound
    /\ ~json_file.written

---------------------------------------------------------------------------
(* C11 *)

\* C11: predict_experience_level never returns 'lead': whatever the title
\* and the description, the word 'lead' in them or not, the result is one of
\* 'senior', 'entry' and 'mid'.
C11_LeadNeverReturned ==
    pc = "return" => (result \in {"senior", "entry", "mid"} /\ result # "lead")

\* A call on a text that holds the word 'lead' returned 'senior'.
C11_Witness ==
    /\ pc = "return"
    /\ contains(combined_title_text, <<"l","e","a","d">>)
    /\ result = "senior"

---------------------------------------------------------------------------
(* C13 *)

\* the occurrence of kw at position i is a proper part of a longer word: kw
\* starts with a word character that follows a word character, or ends with
\* one that a word character follows
embedded_at(text, kw, i) ==
    \/ kw[1] \in WordChars /\ ~no_word_char_at(text, i - 1)
    \/ kw[Len(kw)] \in WordChars /\ ~no_word_char_at(text, i + Len(kw))

\* kw occurs in text, and only as a proper part of longer words
only_embedded(text, kw) ==
    /\ contains(text, kw)
    /\ \A i \in 1..Len(text) : occurs_at(text, kw, i) => embedded_at(text, kw, i)

\* what the description added to the score of category c
text_score(c) == category_scores[c] - 2 * skill_members(c, skills)

\* C13: a keyword that occurs in the description only as a proper part of a
\* longer word does not match and adds nothing to the text score of its
\* category, which counts no more than the keywords that occur otherwise; a
\* keyword that matches occurs between two word boundaries.
C13_WordBoundaryOnly ==
    pc = "return" =>
        LET text == lower(description) IN
        \A c \in Categories :
            /\ text_score(c) <=
                   Cardinality({kw \in keyword_set(c) :
                       contains(text, kw) /\ ~only_embedded(text, kw)})
            /\ \A kw \in keyword_set(c) :
                   /\ only_embedded(text, kw)
                          => ~re_search(keyword_regex(kw), text)
                   /\ re_search(keyword_regex(kw), text)
                          => keyword_occurs(text, kw)

\* A call on a description where 'java' occurs only inside 'javascript' and
\* 'api' only inside 'apis' gave backend no point and frontend one.
C13_Witness ==
    /\ pc = "return"
    /\ skills = <<>>
    /\ only_embedded(lower(description), <<"j","a","v","a">>)
    /\ only_embedded(lower(description), <<"a","p","i">>)
    /\ contains(lower(description), <<"q","u","a","l","i","f","i","e","d">>)
    /\ category_scores["backend"] = 0
    /\ category_scores["frontend"] = 1

---------------------------------------------------------------------------
(* C14 *)

\* C14: predict_job_category returns a category other than 'fullstack' only
\* when that category's score is positive and every other category's score
\* is below 0.7 times it; when two or more categories share a maximum that is
\* not 0 the result is 'fullstack', whichever of them comes first.
C14_StrictDominance ==
    pc = "return" =>
        /\ result # "fullstack" =>
               /\ result \in Categories
               /\ category_scores[result] > 0
               /\ \A c \in Categories \ {result} :
                      10 * category_scores[c] < 7 * category_scores[result]
        /\ (/\ scores_maximum > 0
            /\ Cardinality({c \in Categories :
                               category_scores[c] = scores_maximum}) >= 2)
               => result = "fullstack"

\* A call where backend, the first category, shares a positive maximum with
\* another category returned 'fullstack'.
C14_Witness ==
    /\ pc = "return"
    /\ scores_maximum > 0
    /\ category_scores["backend"] = scores_maximum
    /\ \E c \in Categories \ {"backend"} : category_scores[c] = scores_maximum
    /\ result = "fullstack"

---------------------------------------------------------------------------
(* scraper.py: the three API sources, the built-in dataset, the generated *)
(* samples and the collection driver.  A job is modelled by its 'source'  *)
(* field; an entry of an API answer is "job", "blank" (an entry without   *)
(* a description) or "legal" (the notice that opens RemoteOK's list).     *)

\* Most entries of an API answer in the explored runs.
MaxResponse == 17

\* Most entries without a description in RemoteOK's answer.
MaxBlank == 1

\* n copies of x
repeat(x, n) == [i \in 1..n |-> x]

\* list[a:b] for 0 <= a <= b
slice(list, a, b) ==
    SubSeq(list, a + 1, IF Len(list) < b THEN Len(list) ELSE b)

\* A request that does not give status 200, or raises inside the try.
Failed == [status |-> 503, data |-> <<>>]

GithubAnswers ==
    {Failed} \cup {[status |-> 200, data |-> repeat("job", n)] :
                      n \in 0..MaxResponse}

RemoteokAnswers ==
    {Failed, [status |-> 200, data |-> <<>>]}
        \cup {[status |-> 200,
               data |-> <<"legal">> \o repeat("blank", b) \o repeat("job", n)] :
                  b \in 0..MaxBlank, n \in 0..(MaxResponse - 1 - MaxBlank)}

AuthenticAnswers == GithubAnswers

has_description(job) == job # "blank"

scrape_github_jobs_api(answer) ==
    IF answer.status = 200
    THEN repeat("GitHub Jobs API", Len(slice(answer.data, 0, 15)))
    ELSE <<>>

scrape_remoteok_api(answer) ==
    IF answer.status = 200
    THEN repeat("RemoteOK API",
                Len(SelectSeq(slice(answer.data, 1, 16), has_description)))
    ELSE <<>>

scrape_authentic_jobs_api(answer) ==
    IF answer.status = 200
    THEN repeat("Authentic Jobs API", Len(slice(answer.data, 0, 15)))
    ELSE <<>>

\* The jobs of the three sources, in the order of api_sources.
scrape_public_apis(answers) ==
    scrape_github_jobs_api(answers.github)
        \o scrape_remoteok_api(answers.remoteok)
        \o scrape_authentic_jobs_api(answers.authentic)

\* The ten jobs written out in the source.
get_real_jobs_dataset == repeat("Public Dataset", 10)

\* for i in range(count): samples.append(...)
generate_realistic_samples(count) ==
    repeat("Realistic Sample", IF count < 0 THEN 0 ELSE count)

InitScraper ==
    /\ CallIdle
    /\ MainIdle
    /\ CleanerIdle
    /\ responses \in [github : GithubAnswers, remoteok : RemoteokAnswers,
                      authentic : AuthenticAnswers]
    /\ api_jobs = <<>>
    /\ job_descriptions = <<>>
    /\ raw_file = Unwritten
    /\ pc = "collect"

\* main: api_jobs = scraper.scrape_public_apis(); extend
ScrapePublicApis ==
    /\ pc = "collect"
    /\ api_jobs' = scrape_public_apis(responses)
    /\ job_descriptions' = job_descriptions \o api_jobs'
    /\ pc' = "add real"
    /\ UNCHANGED <<call_vars, main_vars, cleaner_vars, responses, raw_file>>

\* main: real_jobs = scraper.get_real_jobs_dataset(); extend
GetRealJobsDataset ==
    /\ pc = "add real"
    /\ job_descriptions' = job_descriptions \o get_real_jobs_dataset
    /\ pc' = "add samples"
    /\ UNCHANGED <<call_vars, main_vars, cleaner_vars, responses, api_jobs,
                   raw_file>>

\* main: if len(job_descriptions) < 50: extend with 60 - len samples
GenerateRealisticSamples ==
    /\ pc = "add samples"
    /\ job_descriptions' =
           IF Len(job_descriptions) < 50
           THEN job_descriptions
                    \o generate_realistic_samples(60 - Len(job_descriptions))
           ELSE job_descriptions
    /\ pc' = "save"
    /\ UNCHANGED <<call_vars, main_vars, cleaner_vars, responses, api_jobs,
                   raw_file>>

\* main: job_descriptions = job_descriptions[:60]; save_to_json
SaveToJson ==
    /\ pc = "save"
    /\ job_descriptions' = slice(job_descriptions, 0, 60)
    /\ raw_file' = [written |-> TRUE, data |-> job_descriptions']
    /\ pc' = "collected"
    /\ UNCHANGED <<call_vars, main_vars, cleaner_vars, responses, api_jobs>>

NextScraper ==
    \/ ScrapePublicApis
    \/ GetRealJobsDataset
    \/ GenerateRealisticSamples
    \/ SaveToJson

SpecScraper == InitScraper /\ [][NextScraper]_vars

\* C16: whatever the three API sources return (0 to 15 jobs each), the
\* list the scraper's main hands to save_to_json has exactly 60 entries.
C16_ExactlySixtyEntries ==
    raw_file.written => Len(raw_file.data) = 60

---------------------------------------------------------------------------
(* cleaner.py: remove_duplicates. *)

\* item.get(key, default)
item_get(item, key, default) ==
    IF key \in DOMAIN item THEN item[key] ELSE default

\* f"{item.get('title', '').lower()}_{desc_preview}"
fingerprint(item) ==
    LET desc_preview == lower(slice(item_get(item, "description", <<>>), 0, 100))
    IN  lower(item_get(item, "title", <<>>)) \o <<"_">> \o desc_preview

\* The for loop: seen and unique_data after the items from position i on.
RECURSIVE remove_duplicates_loop(_, _, _, _)
remove_duplicates_loop(data, i, seen, unique) ==
    IF i > Len(data) THEN unique
    ELSE IF fingerprint(data[i]) \notin seen
         THEN remove_duplicates_loop(data, i + 1,
                                     seen \cup {fingerprint(data[i])},
                                     Append(unique, data[i]))
         ELSE remove_duplicates_loop(data, i + 1, seen, unique)

\* A loop that lets a later item replace the kept one.
RECURSIVE remove_duplicates_keep_last(_)
remove_duplicates_keep_last(data) ==
    IF data = <<>> THEN <<>>
    ELSE IF \E j \in 2..Len(data) : fingerprint(data[j]) = fingerprint(data[1])
         THEN remove_duplicates_keep_last(Tail(data))
         ELSE <<data[1]>> \o remove_duplicates_keep_last(Tail(data))

remove_duplicates(data) == remove_duplicates_loop(data, 1, {}, <<>>)

\* Descriptions of 99, 100 and 101 characters around the preview's end.
Ninety_Nine == repeat("a", 99)

Dev_Posting ==
    [title |-> <<"D","e","v">>,
     description |-> Ninety_Nine \o <<"x">>,
     url |-> "first"]

\* As Dev_Posting up to case and to the characters after the preview.
Dev_Repost ==
    [title |-> <<"d","e","v">>,
     description |-> Ninety_Nine \o <<"X","y">>,
     url |-> "second"]

\* Differs from Dev_Posting in the last character of the preview.
Dev_Other ==
    [title |-> <<"d","e","v">>,
     description |-> Ninety_Nine \o <<"z">>,
     url |-> "third"]

\* The preview is one character shorter.
Dev_Short ==
    [title |-> <<"d","e","v">>,
     description |-> Ninety_Nine,
     url |-> "fourth"]

\* A record without a description: its fingerprint is "qa__".
No_Description ==
    [title |-> <<"q","a","_">>, url |-> "fifth"]

\* A record without a title: its fingerprint is "_qa__".
No_Title ==
    [description |-> <<"Q","A","_","_">>, url |-> "sixth"]

\* Another title and description that give the fingerprint "_qa__".
Underscore_Title ==
    [title |-> <<"_","q","a">>, description |-> <<"_">>, url |-> "seventh"]

DuplicatePool ==
    {Dev_Posting, Dev_Repost, Dev_Other, Dev_Short, No_Description, No_Title,
     Underscore_Title}

\* The lists of at most n members of pool.
RECURSIVE Lists(_, _)
Lists(pool, n) ==
    IF n = 0 THEN {<<>>}
    ELSE LET shorter == Lists(pool, n - 1) IN
         shorter \cup {Append(l, r) : l \in shorter, r \in pool}

InitDuplicates ==
    /\ CallIdle
    /\ MainIdle
    /\ ScraperIdle
    /\ raw_data = <<>>
    /\ raw_index = 1
    /\ clean_dataset_cleaned_data = <<>>
    /\ remove_duplicates_data \in Lists(DuplicatePool, MaxRecords)
    /\ unique_data = Unbound
    /\ pc = "call"

CallRemoveDuplicates ==
    /\ pc = "call"
    /\ unique_data' =
           [bound |-> TRUE, value |-> remove_duplicates(remove_duplicates_data)]
    /\ pc' = "return"
    /\ UNCHANGED <<call_vars, main_vars, scraper_vars, raw_data, raw_index,
                   clean_dataset_cleaned_data, remove_duplicates_data>>

NextDuplicates == CallRemoveDuplicates

SpecDuplicates == InitDuplicates /\ [][NextDuplicates]_vars

\* The key the deduplication is stated by: the lowercased title, '_', and
\* the lowercased first 100 characters of the description (a missing field
\* counts as empty).
dedup_key(item) ==
    LET t == IF "title" \in DOMAIN item THEN item.title ELSE <<>>
        d == IF "description" \in DOMAIN item THEN item.description ELSE <<>>
    IN  lower(t) \o <<"_">>
            \o lower([i \in 1..(IF Len(d) < 100 THEN Len(d) ELSE 100) |-> d[i]])

\* The positions of the input that hold the first record of their key.
first_occurrences(input) ==
    {i \in 1..Len(input) :
        \A j \in 1..(i - 1) : dedup_key(input[j]) # dedup_key(input[i])}

\* C15: remove_duplicates keeps exactly the first occurrence of each
\* fingerprint: no two output records share a fingerprint, every
\* fingerprint of the input appears in the output, the kept record is the
\* earliest input record with that fingerprint, the kept records are in the
\* order of the input, and removing duplicates from the output changes
\* nothing.
C15_FirstOccurrenceKept ==
    pc = "return" =>
        LET input == remove_duplicates_data
            output == unique_data.value
            firsts == first_occurrences(input)
            \* the position of the a-th first occurrence
            nth(a) == CHOOSE p \in firsts :
                          Cardinality({q \in firsts : q <= p}) = a
        IN  /\ \A a, b \in 1..Len(output) :
                   a # b => dedup_key(output[a]) # dedup_key(output[b])
            /\ {dedup_key(input[i]) : i \in 1..Len(input)}
                   = {dedup_key(output[a]) : a \in 1..Len(output)}
            /\ Len(output) = Cardinality(firsts)
            /\ \A a \in 1..Len(output) : output[a] = input[nth(a)]
            /\ remove_duplicates(output) = output

\* A posting and its repost (same fingerprint, different records) were both
\* in the input, with a different posting between them; the first and the
\* different one were kept, in that order.
C15_Witness ==
    /\ pc = "return"
    /\ remove_duplicates_data = <<Dev_Posting, Dev_Other, Dev_Repost>>
    /\ unique_data.value = <<Dev_Posting, Dev_Other>>

---------------------------------------------------------------------------
(* cleaner.py: clean_text, extract_skills and clean_dataset.  A raw value  *)
(* is [type, text]: the name of its Python type and, for a str, its        *)
(* characters.                                                             *)

\* Most records of the raw list in the explored calls.
MaxRaw == 2

\* \s of the re module, and what str.split() and str.strip() cut at
Whitespace == {" ", "\t", "\n"}

\* The entries of html.entities.html5 that the explored texts can name,
\* with and without the closing semicolon.
html5(name) ==
    CASE name \in {<<"a","m","p",";">>, <<"a","m","p">>} -> <<"&">>
      [] name \in {<<"l","t",";">>, <<"l","t">>} -> <<"<">>
      [] name \in {<<"g","t",";">>, <<"g","t">>} -> <<">">>
      [] name \in {<<"q","u","o","t",";">>, <<"q","u","o","t">>} -> <<"\"">>
      [] OTHER -> <<>>

in_html5(name) == html5(name) # <<>>

\* The first position from i on whose character is in chars (Len + 1 when
\* there is none).
first_in(text, i, chars) ==
    LET found == {j \in i..Len(text) : text[j] \in chars} IN
    IF found = {} THEN Len(text) + 1
    ELSE CHOOSE j \in found : \A k \in found : j <= k

\* The last position up to i whose character is in chars (0 when there is
\* none).
last_in(text, i, chars) ==
    LET back == {d \in 0..(i - 1) : text[i - d] \in chars} IN
    IF back = {} THEN 0
    ELSE i - (CHOOSE d \in back : \A e \in back : d <= e)

\* ''.join(chunks[lo..hi])
RECURSIVE concat_range(_, _, _)
concat_range(chunks, lo, hi) ==
    IF lo > hi THEN <<>>
    ELSE IF lo = hi THEN chunks[lo]
    ELSE LET mid == (lo + hi) \div 2 IN
         concat_range(chunks, lo, mid) \o concat_range(chunks, mid + 1, hi)

concat(chunks) == concat_range(chunks, 1, Len(chunks))

\* html.unescape's replace_charref for a named reference s (the text after
\* the '&'): the entity s, or the longest proper prefix of s that is an
\* entity followed by the rest of s, or the reference unchanged.
replace_charref(s) ==
    IF in_html5(s) THEN html5(s)
    ELSE LET known == {x \in 2..(Len(s) - 1) : in_html5(SubSeq(s, 1, x))} IN
         IF known # {}
         THEN LET x == CHOOSE x \in known : \A y \in known : y <= x IN
              html5(SubSeq(s, 1, x)) \o SubSeq(s, x + 1, Len(s))
         ELSE <<"&">> \o s

\* The end of the match of &([^\t\n\f <&#;]{1,32};?) that starts at the
\* '&' at position a (a itself when there is no match).
charref_end(text, a) ==
    LET stop == first_in(text, a + 1, {"\t", "\n", " ", "<", "&", "#", ";"})
        name_end == IF stop - 1 > a + 32 THEN a + 32 ELSE stop - 1
    IN  IF name_end < Len(text) /\ name_end > a /\ text[name_end + 1] = ";"
        THEN name_end + 1 ELSE name_end

\* html.unescape(text): every match is replaced by replace_charref, the
\* other characters stay; the explored texts hold no numeric reference.
html_unescape(text) ==
    LET chunk(i) ==
            LET a == last_in(text, i, {"&"}) IN
            IF a = 0 \/ charref_end(text, a) < i THEN <<text[i]>>
            ELSE IF a < i THEN <<>>
            ELSE IF charref_end(text, a) = a THEN <<"&">>
            ELSE replace_charref(SubSeq(text, a + 1, charref_end(text, a)))
    IN  concat([i \in 1..Len(text) |-> chunk(i)])

\* Is position i inside a match of <[^>]+> ?  A match runs from a '<' to
\* the next '>', with at least one character between them.
in_tag(text, i) ==
    LET close == first_in(text, i, {">"})
        previous == last_in(text, i - 1, {">"})
    IN  /\ close <= Len(text)
        /\ \E a \in (previous + 1)..i : text[a] = "<" /\ close >= a + 2

\* re.sub(r'<[^>]+>', '', text)
remove_tags(text) ==
    concat([i \in 1..Len(text) |->
               IF in_tag(text, i) THEN <<>> ELSE <<text[i]>>])

\* Does the text hold the characters of word from position i on?
starts_with(text, i, word) ==
    /\ i + Len(word) - 1 <= Len(text)
    /\ \A k \in 1..Len(word) : text[i + k - 1] = word[k]

\* Is position i inside a match of http\S+|www\.\S+ ?  A match runs from
\* 'http' or 'www.' followed by a character that is not whitespace to the
\* end of the run of such characters.
in_url(text, i) ==
    /\ text[i] \notin Whitespace
    /\ \E s \in (last_in(text, i, Whitespace) + 1)..i :
           /\ \/ starts_with(text, s, <<"h","t","t","p">>)
              \/ starts_with(text, s, <<"w","w","w",".">>)
           /\ s + 4 <= Len(text)
           /\ text[s + 4] \notin Whitespace

\* re.sub(r'http\S+|www\.\S+', '', text)
remove_urls(text) ==
    concat([i \in 1..Len(text) |->
               IF in_url(text, i) THEN <<>> ELSE <<text[i]>>])

\* [\w\s.,!?;:()-]
is_kept_character(c) ==
    c \in WordChars \cup Whitespace
            \cup {".", ",", "!", "?", ";", ":", "(", ")", "-"}

\* re.sub(r'[^\w\s.,!?;:()-]', '', text)
remove_special_characters(text) == SelectSeq(text, is_kept_character)

\* re.sub(r'\s+', ' ', text): a run of whitespace gives one space
collapse_whitespace(text) ==
    concat([i \in 1..Len(text) |->
               IF text[i] \notin Whitespace THEN <<text[i]>>
               ELSE IF i > 1 /\ text[i - 1] \in Whitespace THEN <<>>
               ELSE <<" ">>])

\* str.strip()
strip(text) ==
    IF \A i \in 1..Len(text) : text[i] \in Whitespace THEN <<>>
    ELSE SubSeq(text,
                first_in(text, 1, {text[i] : i \in 1..Len(text)} \ Whitespace),
                last_in(text, Len(text),
                        {text[i] : i \in 1..Len(text)} \ Whitespace))

\* str.split(): the maximal runs of characters that are not whitespace
split(text) ==
    concat([i \in 1..Len(text) |->
               IF /\ text[i] \notin Whitespace
                  /\ i = 1 \/ text[i - 1] \in Whitespace
               THEN <<SubSeq(text, i, first_in(text, i, Whitespace) - 1)>>
               ELSE <<>>])

clean_text(value) ==
    IF value.type # "str" \/ value.text = <<>> THEN <<>>
    ELSE LET unescaped == html_unescape(value.text)
             untagged == remove_tags(unescaped)
             unlinked == remove_urls(untagged)
             plain == remove_special_characters(unlinked)
             normal == strip(collapse_whitespace(plain))
         IN  lower(normal)

\* self.tech_skills, in the order sorted() gives
tech_skills ==
    << <<"a","g","i","l","e">>,
       <<"a","i">>,
       <<"a","n","g","u","l","a","r">>,
       <<"a","p","i">>,
       <<"a","w","s">>,
       <<"a","z","u","r","e">>,
       <<"b","o","o","t","s","t","r","a","p">>,
       <<"c","i","/","c","d">>,
       <<"c","s","s">>,
       <<"d","j","a","n","g","o">>,
       <<"d","o","c","k","e","r">>,
       <<"f","l","a","s","k">>,
       <<"g","c","p">>,
       <<"g","i","t">>,
       <<"h","t","m","l">>,
       <<"j","a","v","a">>,
       <<"j","a","v","a","s","c","r","i","p","t">>,
       <<"j","e","n","k","i","n","s">>,
       <<"k","a","f","k","a">>,
       <<"k","u","b","e","r","n","e","t","e","s">>,
       <<"l","i","n","u","x">>,
       <<"m","a","c","h","i","n","e"," ","l","e","a","r","n","i","n","g">>,
       <<"m","i","c","r","o","s","e","r","v","i","c","e","s">>,
       <<"m","o","n","g","o","d","b">>,
       <<"m","y","s","q","l">>,
       <<"n","o","d","e",".","j","s">>,
       <<"n","o","s","q","l">>,
       <<"p","o","s","t","g","r","e","s","q","l">>,
       <<"p","y","t","h","o","n">>,
       <<"p","y","t","o","r","c","h">>,
       <<"r","a","b","b","i","t","m","q">>,
       <<"r","e","a","c","t">>,
       <<"r","e","d","i","s">>,
       <<"r","e","s","t">>,
       <<"s","c","r","u","m">>,
       <<"s","p","r","i","n","g">>,
       <<"s","q","l">>,
       <<"t","a","i","l","w","i","n","d">>,
       <<"t","e","n","s","o","r","f","l","o","w">>,
       <<"t","y","p","e","s","c","r","i","p","t">>,
       <<"v","u","e">> >>

\* sorted(list(set(found_skills)))
extract_skills(desc) ==
    LET description_lower == lower(desc)
        found(skill) == re_search(keyword_regex(skill), description_lower)
    IN  SelectSeq(tech_skills, found)

\* The str '' that item.get gives for a missing key.
Empty_Str == [type |-> "str", text |-> <<>>]

\* The dict built first, from the text fields cleaned and the other two.
cleaned_fields(item) ==
    [title |-> clean_text(item_get(item, "title", Empty_Str)),
     company |-> clean_text(item_get(item, "company", Empty_Str)),
     location |-> clean_text(item_get(item, "location", Empty_Str)),
     description |-> clean_text(item_get(item, "description", Empty_Str)),
     source |-> item_get(item, "source", Empty_Str),
     url |-> item_get(item, "url", Empty_Str)]

\* A filter that lets descriptions of 29 words through.
is_skipped_below_29(cleaned_item) ==
    \/ cleaned_item.title = <<>>
    \/ cleaned_item.description = <<>>
    \/ Len(split(cleaned_item.description)) < 29

\* Skip if essential fields are missing or too short.
is_skipped(cleaned_item) ==
    \/ cleaned_item.title = <<>>
    \/ cleaned_item.description = <<>>
    \/ Len(split(cleaned_item.description)) < 30

\* Extract skills and add metadata.
with_metadata(cleaned_item) ==
    [skills |-> extract_skills(cleaned_item.description),
     word_count |-> Len(split(cleaned_item.description)),
     char_count |-> Len(cleaned_item.description)] @@ cleaned_item

\* A str value, and the values None and 42.
Str(text) == [type |-> "str", text |-> text]

None == [type |-> "NoneType", text |-> <<>>]

Forty_Two == [type |-> "int", text |-> <<"4","2">>]

\* ' '.join([word] * n)
words(word, n) == join(<<" ">>, repeat(word, n))

Dev == Str(<<"D","e","v">>)

Thirty_Words == words(<<"g","o">>, 30)

Twenty_Nine_Words == words(<<"g","o">>, 29)

\* Kept: a description of exactly 30 words.
Thirty_Raw ==
    [title |-> Dev, company |-> Str(<<"A","c","m","e">>),
     location |-> Str(<<"R","e","m","o","t","e">>),
     description |-> Str(Thirty_Words),
     source |-> Str(<<"R","e","m","o","t","e","O","K"," ","A","P","I">>),
     url |-> Str(<<"1">>)]

\* Dropped: 29 words.
Twenty_Nine_Raw ==
    [title |-> Dev, company |-> Str(<<"A","c","m","e">>),
     location |-> Str(<<"R","e","m","o","t","e">>),
     description |-> Str(Twenty_Nine_Words),
     source |-> Str(<<"R","e","m","o","t","e","O","K"," ","A","P","I">>),
     url |-> Str(<<"2">>)]

\* Dropped: 30 words before cleaning, the last one a URL.
Url_Raw ==
    [title |-> Dev, company |-> Str(<<"A","c","m","e">>),
     location |-> Str(<<"R","e","m","o","t","e">>),
     description |->
         Str(Twenty_Nine_Words
                 \o <<" ","h","t","t","p",":","/","/","x",".","i","o","/","a","?","b","=","1">>),
     source |-> Str(<<"R","e","m","o","t","e","O","K"," ","A","P","I">>),
     url |-> Str(<<"3">>)]

\* Dropped: 32 words before cleaning, three of which cleaning removes.
Entity_Raw ==
    [title |-> Dev, company |-> Str(<<"A","c","m","e">>),
     location |-> Str(<<"R","e","m","o","t","e">>),
     description |->
         Str(Twenty_Nine_Words
                 \o <<" ","&","a","m","p",";"," ","&","l","t",";","b","r","&","g","t",";"," ","#">>),
     source |-> Str(<<"R","e","m","o","t","e","O","K"," ","A","P","I">>),
     url |-> Str(<<"4">>)]

\* Kept: markup, runs of whitespace and a URL around 30 words, and a 31st
\* word left of an entity without its semicolon.
Markup_Raw ==
    [title |-> Str(<<"<","b",">","S","r","."," ","D","e","v","<","/","b",">">>),
     company |-> Str(<<"A","c","m","e"," ","&","a","m","p",";"," ","C","o">>),
     description |->
         Str(<<"<","p",">","\t","\n">>
                 \o join(<<"\n">>, repeat(<<"A","I">>, 30))
                 \o <<"<","/","p",">"," ","w","w","w",".","x",".","i","o"," ",
                      "&","l","t","d">>),
     source |-> Str(<<"R","e","m","o","t","e","O","K"," ","A","P","I">>),
     url |-> Str(<<"5">>)]

\* Dropped: the title is markup only.
Empty_Title_Raw ==
    [title |-> Str(<<"<","b","r",">"," ","&","l","t",";","b","&","g","t",";">>),
     company |-> Str(<<"A","c","m","e">>), location |-> Str(<<"R","e","m","o","t","e">>),
     description |-> Str(Thirty_Words),
     source |-> Str(<<"R","e","m","o","t","e","O","K"," ","A","P","I">>),
     url |-> Str(<<"6">>)]

\* Dropped: the title is None.
None_Title_Raw ==
    [title |-> None, company |-> None, location |-> Str(<<"R","e","m","o","t","e">>),
     description |-> Str(Thirty_Words),
     source |-> None, url |-> Str(<<"7">>)]

\* Dropped: the description is a number.
Number_Raw ==
    [title |-> Dev, company |-> Str(<<"A","c","m","e">>),
     location |-> Forty_Two,
     description |-> Forty_Two,
     source |-> Str(<<"R","e","m","o","t","e","O","K"," ","A","P","I">>),
     url |-> Str(<<"8">>)]

\* Dropped: a record with neither title nor description.
No_Fields_Raw == [url |-> Str(<<"9">>)]

\* Kept, and cleaned to the title and description of Thirty_Raw.
Repost_Raw ==
    [title |-> Str(<<" ","d","e","v","\n">>),
     company |-> Str(<<"A","c","m","e">>),
     description |-> Str(<<"\t">> \o words(<<"G","O">>, 30) \o <<" ","#">>),
     source |-> Str(<<"R","e","m","o","t","e","O","K"," ","A","P","I">>),
     url |-> Str(<<"1","0">>)]

\* Kept: the 30th word keeps one of its two characters.
Sharp_Raw ==
    [title |-> Dev, company |-> Str(<<"A","c","m","e">>),
     location |-> Str(<<"R","e","m","o","t","e">>),
     description |-> Str(Twenty_Nine_Words \o <<" ","c","#">>),
     source |-> Str(<<"R","e","m","o","t","e","O","K"," ","A","P","I">>),
     url |-> Str(<<"1","1">>)]

\* Dropped: no title, and a description of 30 words.
No_Title_Raw ==
    [description |-> Str(Thirty_Words), url |-> Str(<<"1","2">>)]

RawPool ==
    {Thirty_Raw, Twenty_Nine_Raw, Url_Raw, Entity_Raw, Markup_Raw,
     Empty_Title_Raw, None_Title_Raw, Number_Raw, No_Fields_Raw, Repost_Raw,
     Sharp_Raw, No_Title_Raw}

InitCleaner ==
    /\ CallIdle
    /\ MainIdle
    /\ ScraperIdle
    /\ raw_data \in Lists(RawPool, MaxRaw)
    /\ raw_index = 1
    /\ clean_dataset_cleaned_data = <<>>
    /\ remove_duplicates_data = <<>>
    /\ unique_data = Unbound
    /\ pc = "clean"

\* clean_dataset: one turn of the for loop
CleanItem ==
    /\ pc = "clean"
    /\ raw_index <= Len(raw_data)
    /\ LET cleaned_item == cleaned_fields(raw_data[raw_index]) IN
       clean_dataset_cleaned_data' =
           IF is_skipped(cleaned_item) THEN clean_dataset_cleaned_data
           ELSE Append(clean_dataset_cleaned_data, with_metadata(cleaned_item))
    /\ raw_index' = raw_index + 1
    /\ UNCHANGED <<call_vars, main_vars, scraper_vars, raw_data,
                   remove_duplicates_data, unique_data, pc>>

\* clean_dataset: cleaned_data = self.remove_duplicates(cleaned_data); return
RemoveDuplicates ==
    /\ pc = "clean"
    /\ raw_index > Len(raw_data)
    /\ remove_duplicates_data' = clean_dataset_cleaned_data
    /\ unique_data' =
           [bound |-> TRUE, value |-> remove_duplicates(remove_duplicates_data')]
    /\ clean_dataset_cleaned_data' = unique_data'.value
    /\ pc' = "return"
    /\ UNCHANGED <<call_vars, main_vars, scraper_vars, raw_data, raw_index>>

NextCleaner == CleanItem \/ RemoveDuplicates

SpecCleaner == InitCleaner /\ [][NextCleaner]_vars

\* The number of whitespace-separated words of a text: the positions where
\* a character that is not whitespace follows whitespace or starts the text.
word_total(text) ==
    Cardinality({i \in 1..Len(text) :
                    /\ text[i] \notin Whitespace
                    /\ i = 1 \/ text[i - 1] \in Whitespace})

\* C12: every record clean_dataset emits (and every record it has collected
\* so far) has a non-empty title and a non-empty description of at least 30
\* whitespace-separated words, and no raw record whose cleaned title is
\* empty or whose cleaned description has fewer than 30 words is the origin
\* (by its url) of an emitted record.
C12_EmittedRecordsAreLongEnough ==
    LET emitted == clean_dataset_cleaned_data IN
    /\ \A k \in 1..Len(emitted) :
           /\ emitted[k].title # <<>>
           /\ emitted[k].description # <<>>
           /\ word_total(emitted[k].description) >= 30
    /\ \A i \in 1..Len(raw_data) :
           LET raw == raw_data[i]
               raw_title == IF "title" \in DOMAIN raw THEN raw.title ELSE Empty_Str
               raw_description ==
                   IF "description" \in DOMAIN raw THEN raw.description
                   ELSE Empty_Str
           IN  \/ clean_text(raw_title) = <<>>
               \/ word_total(clean_text(raw_description)) < 30
               => \A k \in 1..Len(emitted) : emitted[k].url # raw.url

\* clean_dataset returned one record of exactly 30 words, from a raw list
\* that also held a record of 30 words before cleaning and 29 after.
C12_Witness ==
    /\ pc = "return"
    /\ \E i \in 1..Len(raw_data) :
           /\ "description" \in DOMAIN raw_data[i]
           /\ word_total(raw_data[i].description.text) = 30
           /\ word_total(clean_text(raw_data[i].description)) = 29
    /\ Len(clean_dataset_cleaned_data) = 1
    /\ word_total(clean_dataset_cleaned_data[1].description) = 30
    /\ clean_dataset_cleaned_data[1].word_count = 30

=============================================================================
